---- MODULE Spec2Model ----
(***************************************************************************)
(* Model of block_trades_parser.py: the name normaliser, the report-date   *)
(* extractor, the block-trade table parser, and the ledger / audit-sheet   *)
(* writers of the main pipeline.                                           *)
(*                                                                         *)
(* A Python str is a sequence of one-character strings.  A Python value    *)
(* is a record [t |-> type name, v |-> payload].                           *)
(***************************************************************************)
EXTENDS Integers, Sequences, FiniteSets, TLC

VARIABLES
    pc,          \* position of the run under the specification at hand
    s,           \* norm_name: the argument
    once,        \* norm_name(s)
    twice,       \* norm_name(norm_name(s))
    text,        \* parse_block_table_from_page: the page text, a sequence of lines
    df,          \* parse_block_table_from_page: what the call produced
    pdf,         \* the document: a sequence of pages
    report,      \* extract_report_date / extract_block_trades: what the call produced
    ws,          \* the "Master" worksheet: openpyxl's _cells, (row, column) -> value
    arg,         \* the arguments of the ledger operation under way
    ret,         \* what the ledger operations returned
    sheet        \* the audit sheet write_pdf_sheet creates

normVars   == <<s, once, twice>>
parseVars  == <<text, df>>
pdfVars    == <<pdf, report>>
ledgerVars == <<ws, arg, ret, sheet>>
vars       == <<pc, s, once, twice, text, df, pdf, report, ws, arg, ret, sheet>>

-----------------------------------------------------------------------------
(* Bounds of the model. *)

\* longest argument of norm_name explored exhaustively
MaxLen == 4

\* most lines of a page text
MaxLines == 3

\* most pages of a document
MaxPages == 3

\* most calls of find_or_create_date_row in a row
MaxCalls == 2

\* most data rows of a ledger find_or_create_date_row is called on
MaxDataRows == 2

\* most four-column company blocks of a ledger
MaxBlocks == 2

\* most rows of the table of trades of a run of main
MaxTrades == 3

-----------------------------------------------------------------------------
(* Python values. *)

PyNone == [t |-> "NoneType", v |-> 0]

PyStr(cs) == [t |-> "str", v |-> cs]

PyInt(n) == [t |-> "int", v |-> n]

\* datetime.datetime: a calendar date <<year, month, day>> and a time of day in
\* seconds (0 = midnight)
PyDateTime(d, tm) == [t |-> "datetime", v |-> <<d, tm>>]

-----------------------------------------------------------------------------
(* Characters and the str methods the program calls. *)

RECURSIVE Concat(_)
\* "".join(parts) for a sequence of strings
Concat(parts) ==
    IF parts = <<>> THEN <<>> ELSE Head(parts) \o Concat(Tail(parts))

\* str.isspace / the regex class \s, on the characters of the model
IsSpace(c) == c \in {" ", "\t", "\n"}

IsDigit(c) == c \in {"0", "1", "2", "3", "4", "5", "6", "7", "8", "9"}

\* _DEACCENT_TABLE = str.maketrans("ΪΫάέίόύήώϊϋΐΰΆΈΊΎΌΉΏ", "ΙΥαειουηωιυιυΑΕΙΥΟΗΩ")
DeaccentFrom ==
    <<"Ϊ", "Ϋ", "ά", "έ", "ί", "ό", "ύ", "ή", "ώ", "ϊ",
      "ϋ", "ΐ", "ΰ", "Ά", "Έ", "Ί", "Ύ", "Ό", "Ή", "Ώ">>

DeaccentTo ==
    <<"Ι", "Υ", "α", "ε", "ι", "ο", "υ", "η", "ω", "ι",
      "υ", "ι", "υ", "Α", "Ε", "Ι", "Υ", "Ο", "Η", "Ω">>

\* one character through _DEACCENT_TABLE: outside the table it is unchanged
DeaccentChar(c) ==
    IF \E i \in 1..Len(DeaccentFrom) : DeaccentFrom[i] = c
    THEN DeaccentTo[CHOOSE i \in 1..Len(DeaccentFrom) : DeaccentFrom[i] = c]
    ELSE c

\* s.translate(_DEACCENT_TABLE)
Deaccent(cs) == [i \in 1..Len(cs) |-> DeaccentChar(cs[i])]

LowerLetters ==
    <<"a", "b", "c", "d", "e", "f", "g", "h", "i", "j", "k", "l", "m",
      "n", "o", "p", "q", "r", "s", "t", "u", "v", "w", "x", "y", "z",
      "α", "β", "γ", "δ", "ε", "ζ", "η", "θ", "ι", "κ", "λ", "μ",
      "ν", "ξ", "ο", "π", "ρ", "σ", "ς", "τ", "υ", "φ", "χ", "ψ", "ω",
      "ά", "έ", "ή", "ί", "ό", "ύ", "ώ", "ϊ", "ϋ">>

UpperLetters ==
    <<"A", "B", "C", "D", "E", "F", "G", "H", "I", "J", "K", "L", "M",
      "N", "O", "P", "Q", "R", "S", "T", "U", "V", "W", "X", "Y", "Z",
      "Α", "Β", "Γ", "Δ", "Ε", "Ζ", "Η", "Θ", "Ι", "Κ", "Λ", "Μ",
      "Ν", "Ξ", "Ο", "Π", "Ρ", "Σ", "Σ", "Τ", "Υ", "Φ", "Χ", "Ψ", "Ω",
      "Ά", "Έ", "Ή", "Ί", "Ό", "Ύ", "Ώ", "Ϊ", "Ϋ">>

\* str.upper() of one character.  Unicode's special casing makes it a string:
\* U+1FB4 (alpha with oxia and ypogegrammeni) becomes U+0386 U+0399, as
\* U+1FC4 and U+1FF4 become U+0389 U+0399 and U+038F U+0399.
UpperChar(c) ==
    IF \E i \in 1..Len(LowerLetters) : LowerLetters[i] = c
    THEN <<UpperLetters[CHOOSE i \in 1..Len(LowerLetters) : LowerLetters[i] = c]>>
    ELSE IF c = "ᾴ" THEN <<"Ά", "Ι">>
    ELSE IF c = "ῄ" THEN <<"Ή", "Ι">>
    ELSE IF c = "ῴ" THEN <<"Ώ", "Ι">>
    ELSE <<c>>

\* s.upper()
Upper(cs) == Concat([i \in 1..Len(cs) |-> UpperChar(cs[i])])

\* the Greek capitals of the suffix patterns, which look like Latin K, O, A
GreekKappa == "Κ"

GreekOmicron == "Ο"

GreekAlpha == "Α"

\* re.I: two characters match when they are the same letter in either case
SameLetter(c, p) == UpperChar(c) = UpperChar(p)

RECURSIVE LStrip(_)
LStrip(cs) ==
    IF cs # <<>> /\ IsSpace(Head(cs)) THEN LStrip(Tail(cs)) ELSE cs

RECURSIVE RStrip(_)
RStrip(cs) ==
    IF cs # <<>> /\ IsSpace(cs[Len(cs)])
    THEN RStrip(SubSeq(cs, 1, Len(cs) - 1))
    ELSE cs

\* s.strip()
Strip(cs) == RStrip(LStrip(cs))

RECURSIVE CollapseSpace(_)
\* re.sub(r"\s+", " ", s): every maximal run of whitespace becomes one space
CollapseSpace(cs) ==
    IF cs = <<>> THEN <<>>
    ELSE IF IsSpace(Head(cs)) THEN <<" ">> \o CollapseSpace(LStrip(cs))
    ELSE <<Head(cs)>> \o CollapseSpace(Tail(cs))

RECURSIVE SpaceParenFrom(_, _)
\* the scan of re.sub(r"\s*\(", " (", s): `done` is the output so far, which
\* ends with the whitespace the scan has passed since the last other character
SpaceParenFrom(done, rest) ==
    IF rest = <<>> THEN done
    ELSE IF Head(rest) = "("
         THEN SpaceParenFrom(RStrip(done) \o <<" ", "(">>, Tail(rest))
    ELSE SpaceParenFrom(done \o <<Head(rest)>>, Tail(rest))

\* re.sub(r"\s*\(", " (", s)
SpaceParen(cs) == SpaceParenFrom(<<>>, cs)

\* the pattern \((XY|xy)\) with re.I matches at the head of cs
SuffixAt(cs, greek, latin) ==
    /\ Len(cs) >= 4
    /\ cs[1] = "("
    /\ cs[4] = ")"
    /\ \/ SameLetter(cs[2], greek[1]) /\ SameLetter(cs[3], greek[2])
       \/ SameLetter(cs[2], latin[1]) /\ SameLetter(cs[3], latin[2])

RECURSIVE SubSuffix(_, _, _)
\* re.sub(r"\((XY|xy)\)", "(xy)", s, flags=re.I), left to right, non-overlapping
SubSuffix(cs, greek, latin) ==
    IF cs = <<>> THEN <<>>
    ELSE IF SuffixAt(cs, greek, latin)
         THEN <<"(", latin[1], latin[2], ")">>
              \o SubSuffix(SubSeq(cs, 5, Len(cs)), greek, latin)
    ELSE <<Head(cs)>> \o SubSuffix(Tail(cs), greek, latin)

\* norm_name on a str
NormStr(cs) ==
    LET a == Deaccent(cs)
        b == CollapseSpace(Strip(a))
        c == SpaceParen(b)
        d == SubSuffix(c, <<GreekKappa, GreekOmicron>>, <<"K", "O">>)
        e == SubSuffix(d, <<GreekKappa, GreekAlpha>>, <<"K", "A">>)
    IN  Upper(e)

\* norm_name: a value that is not a str is returned as it is
norm_name(x) == IF x.t # "str" THEN x ELSE PyStr(NormStr(x.v))

-----------------------------------------------------------------------------
(* norm_name applied once and twice to one argument. *)

\* the characters the arguments are made of: whitespace, parentheses, the
\* letters of the (KO) suffix in both scripts and cases, an accented letter of
\* _DEACCENT_TABLE, and a polytonic letter outside it
NormAlphabet == {" ", "(", ")", "k", GreekKappa, "ό", "O", "ᾴ"}

NormInputs ==
    {PyStr(cs) : cs \in UNION {[1..n -> NormAlphabet] : n \in 0..MaxLen}}
        \cup {PyNone, PyInt(0)}

OtherIdle(group) ==
    /\ "norm" \in group \/ (s = PyNone /\ once = PyNone /\ twice = PyNone)
    /\ "parse" \in group \/ (text = <<>> /\ df = PyNone)
    /\ "pdf" \in group \/ (pdf = <<>> /\ report = PyNone)
    /\ "ledger" \in group \/ (ws = <<>> /\ arg = PyNone /\ ret = PyNone /\ sheet = <<>>)

InitNorm ==
    /\ pc = "norm_in"
    /\ s \in NormInputs
    /\ once = PyNone
    /\ twice = PyNone
    /\ OtherIdle({"norm"})

\* once = norm_name(s)
NormOnce ==
    /\ pc = "norm_in"
    /\ once' = norm_name(s)
    /\ pc' = "norm_once"
    /\ UNCHANGED <<s, twice, parseVars, pdfVars, ledgerVars>>

\* twice = norm_name(once)
NormTwice ==
    /\ pc = "norm_once"
    /\ twice' = norm_name(once)
    /\ pc' = "norm_twice"
    /\ UNCHANGED <<s, once, parseVars, pdfVars, ledgerVars>>

NextNorm == NormOnce \/ NormTwice

SpecNorm == InitNorm /\ [][NextNorm]_vars

\* C6: norm_name is idempotent: norm_name(norm_name(s)) = norm_name(s) for every
\* argument s, and an argument that is not a str is returned unchanged.
C6_NormIdempotent ==
    /\ pc = "norm_twice" => twice = once
    /\ (pc = "norm_once" /\ s.t # "str") => once = s

-----------------------------------------------------------------------------
(* More str methods, and the regular expression TIME_RE. *)

\* sub in cs
Contains(cs, sub) ==
    \E i \in 1..(Len(cs) - Len(sub) + 1) : SubSeq(cs, i, i + Len(sub) - 1) = sub

RECURSIVE Split(_)
\* s.split(): the maximal runs of characters that are not whitespace
Split(cs) ==
    LET t == LStrip(cs) IN
    IF t = <<>> THEN <<>>
    ELSE LET k == CHOOSE k \in 1..Len(t) :
                      /\ \A j \in 1..k : ~IsSpace(t[j])
                      /\ k = Len(t) \/ IsSpace(t[k + 1])
         IN  <<SubSeq(t, 1, k)>> \o Split(SubSeq(t, k + 1, Len(t)))

RECURSIVE JoinWith(_, _)
\* sep.join(parts)
JoinWith(sep, parts) ==
    IF parts = <<>> THEN <<>>
    ELSE IF Len(parts) = 1 THEN parts[1]
    ELSE parts[1] \o sep \o JoinWith(sep, Tail(parts))

\* s.replace(",", "", regex=False)
RemoveCommas(cs) == SelectSeq(cs, LAMBDA c : c # ",")

RECURSIVE TrailingDigits(_)
\* how many digits cs ends with
TrailingDigits(cs) ==
    IF cs # <<>> /\ IsDigit(cs[Len(cs)])
    THEN 1 + TrailingDigits(SubSeq(cs, 1, Len(cs) - 1))
    ELSE 0

\* \d{2}:\d{2}:\d{2} matches the whole of t
IsTime(t) ==
    /\ Len(t) = 8
    /\ \A i \in {1, 2, 4, 5, 7, 8} : IsDigit(t[i])
    /\ t[3] = ":"
    /\ t[6] = ":"

NoMatch == [found |-> FALSE, start |-> 0, time |-> <<>>, note |-> <<>>]

\* TIME_RE.search(ln), TIME_RE = (\d{2}:\d{2}:\d{2})\s+(\d+)$: the line ends
\* with digits (group 2), before them whitespace, before it a time (group 1).
\* start is m.start(), the number of characters before the match.
TimeSearch(ln) ==
    LET k == TrailingDigits(ln)
        a == SubSeq(ln, 1, Len(ln) - k)
        b == RStrip(a)
        e == Len(b)
    IN  IF k >= 1 /\ Len(a) > e /\ e >= 8 /\ IsTime(SubSeq(b, e - 7, e))
        THEN [found |-> TRUE,
              start |-> e - 8,
              time  |-> SubSeq(b, e - 7, e),
              note  |-> SubSeq(ln, Len(ln) - k + 1, Len(ln))]
        ELSE NoMatch

-----------------------------------------------------------------------------
(* Numbers: int64 and float64 from the text of a cell. *)

Digits == <<"0", "1", "2", "3", "4", "5", "6", "7", "8", "9">>

DigitValue(c) == (CHOOSE n \in 1..10 : Digits[n] = c) - 1

RECURSIVE DigitsValue(_)
\* the number a string of digits writes
DigitsValue(ds) ==
    IF ds = <<>> THEN 0
    ELSE 10 * DigitsValue(SubSeq(ds, 1, Len(ds) - 1)) + DigitValue(ds[Len(ds)])

\* int(cs) succeeds: digits only (the model's texts hold no sign or underscore)
IsIntText(cs) == cs # <<>> /\ \A i \in 1..Len(cs) : IsDigit(cs[i])

\* float(cs) succeeds: digits with at most one point, and a digit at all
IsFloatText(cs) ==
    /\ \A i \in 1..Len(cs) : IsDigit(cs[i]) \/ cs[i] = "."
    /\ Cardinality({i \in 1..Len(cs) : cs[i] = "."}) <= 1
    /\ \E i \in 1..Len(cs) : IsDigit(cs[i])

RECURSIVE Dec(_, _)
\* the decimal number m / 10^e, in lowest terms: equal numbers are equal pairs
Dec(m, e) == IF e > 0 /\ m % 10 = 0 THEN Dec(m \div 10, e - 1) ELSE <<m, e>>

\* float(cs) for a text that IsFloatText
FloatValue(cs) ==
    LET ds == SelectSeq(cs, IsDigit)
        p  == IF "." \in {cs[i] : i \in 1..Len(cs)}
              THEN CHOOSE i \in 1..Len(cs) : cs[i] = "."
              ELSE Len(cs)
    IN  Dec(DigitsValue(ds), Len(cs) - p)

-----------------------------------------------------------------------------
(* parse_block_table_from_page. *)

\* the three fragments of the column-header line (line 73)
HdrSecurities == <<"Χ", "ρ", "ε", "ό", "γ", "ρ", "α", "φ", "α">>

HdrVolume == <<"Ό", "γ", "κ", "ο", "ς">>

HdrApproval == <<"Ώ", "ρ", "α", " ", "έ", "γ", "κ", "ρ", "ι", "σ", "η", "ς">>

\* the marker that ends the table body (line 81)
NotesMarker == <<"Σ", "η", "μ", "ε", "ι", "ώ", "σ", "ε", "ι", "ς">>

DataFrame(rows) == [t |-> "DataFrame", v |-> rows]

\* the call raised ValueError instead of returning
ValueError == [t |-> "ValueError", v |-> <<>>]

\* line 73: the line holds the three header fragments
IsHeaderLine(ln) ==
    Contains(ln, HdrSecurities) /\ Contains(ln, HdrVolume) /\ Contains(ln, HdrApproval)

\* lines 71-75: the index of the first body line (one past the first header
\* line), 0 when no line is a header line
HeaderStart(lines) ==
    IF \E i \in 1..Len(lines) : IsHeaderLine(lines[i])
    THEN 1 + CHOOSE i \in 1..Len(lines) :
                 IsHeaderLine(lines[i]) /\ \A j \in 1..(i - 1) : ~IsHeaderLine(lines[j])
    ELSE 0

\* line 81: the stripped line ends the table body
EndsBody(ln) == ln = <<>> \/ Contains(ln, NotesMarker)

\* a variant of FieldsOf that reads the three numbers right to left
FieldsOfReversed(parts) ==
    LET n == Len(parts) IN
    [Company |-> JoinWith(<<" ">>, SubSeq(parts, 1, n - 3)),
     Volume  |-> parts[n],
     Price   |-> parts[n - 1],
     Value   |-> parts[n - 2]]

\* lines 91-92: value, price, volume are the last three parts; the company
\* is the parts before them joined by single spaces
FieldsOf(parts) ==
    LET n == Len(parts) IN
    [Company |-> JoinWith(<<" ">>, SubSeq(parts, 1, n - 3)),
     Volume  |-> parts[n - 2],
     Price   |-> parts[n - 1],
     Value   |-> parts[n]]

\* a variant of NoSuffixStep that ends the loop at a line without the suffix
NoSuffixBreaks == "break"

\* lines 84-85: a line TIME_RE does not match is passed over
NoSuffixStep == "continue"

\* lines 80-93, one iteration of the loop: the loop ends ("break"), passes
\* the line over ("continue") or appends a row
LineStep(raw) ==
    LET ln    == Strip(raw)
        m     == TimeSearch(ln)
        parts == Split(Strip(SubSeq(ln, 1, m.start)))
        f     == FieldsOf(parts)
    IN  IF EndsBody(ln) THEN [op |-> "break", row |-> <<>>]
        ELSE IF ~m.found THEN [op |-> NoSuffixStep, row |-> <<>>]
        ELSE IF Len(parts) < 4 THEN [op |-> "continue", row |-> <<>>]
        ELSE [op  |-> "append",
              row |-> <<[Company |-> f.Company, Volume |-> f.Volume,
                         Price |-> f.Price, Value |-> f.Value,
                         ApprovalTime |-> m.time, Note |-> m.note]>>]

RECURSIVE BodyRows(_)
\* lines 79-93: the rows of the body lines, up to the line that ends the loop
BodyRows(lines) ==
    IF lines = <<>> THEN <<>>
    ELSE LET st == LineStep(Head(lines)) IN
         IF st.op = "break" THEN <<>> ELSE st.row \o BodyRows(Tail(lines))

\* lines 96-98 on one row: the commas are removed and the texts converted
ConvertRow(r) ==
    [Company |-> r.Company,
     Volume  |-> DigitsValue(RemoveCommas(r.Volume)),
     Price   |-> FloatValue(RemoveCommas(r.Price)),
     Value   |-> FloatValue(RemoveCommas(r.Value)),
     ApprovalTime |-> r.ApprovalTime,
     Note |-> r.Note]

\* lines 96-98: astype raises on a text that is no number
Converts(r) ==
    /\ IsIntText(RemoveCommas(r.Volume))
    /\ IsFloatText(RemoveCommas(r.Price))
    /\ IsFloatText(RemoveCommas(r.Value))

\* parse_block_table_from_page(text), text given as text.splitlines()
parse_block_table_from_page(lines) ==
    LET start == HeaderStart(lines)
        rows  == IF start = 0 THEN <<>>
                 ELSE BodyRows(SubSeq(lines, start, Len(lines)))
    IN  IF \E i \in 1..Len(rows) : ~Converts(rows[i]) THEN ValueError
        ELSE DataFrame([i \in 1..Len(rows) |-> ConvertRow(rows[i])])

-----------------------------------------------------------------------------
(* The lines of the pages explored. *)

\* BLOCK_KEYWORDS[2], the column-header line as the report prints it
HeaderLine == <<"Χ", "ρ", "ε", "ό", "γ", "ρ", "α", "φ", "α", " ", "Ό", "γ", "κ", "ο",
      "ς", " ", "π", "α", "κ", "έ", "τ", "ο", "υ", " ", "Τ", "ι", "μ", "ή",
      " ", "π", "α", "κ", "έ", "τ", "ο", "υ", " ", "Α", "ξ", "ί", "α", " ",
      "π", "α", "κ", "έ", "τ", "ο", "υ", " ", "Ώ", "ρ", "α", " ", "έ", "γ",
      "κ", "ρ", "ι", "σ", "η", "ς">>

\* a column-header line with the fragments of line 73 only
LooseHeaderLine == <<"Χ", "ρ", "ε", "ό", "γ", "ρ", "α", "φ", "α", " ", "Ό", "γ", "κ", "ο",
      "ς", " ", "Ώ", "ρ", "α", " ", "έ", "γ", "κ", "ρ", "ι", "σ", "η", "ς">>

\* BLOCK_KEYWORDS[0], the title of the section
TitleLine == <<"Σ", "τ", "ο", "ι", "χ", "ε", "ί", "α", " ", "Σ", "υ", "ν", "α", "λ",
      "λ", "α", "γ", "ώ", "ν", " ", "Π", "α", "κ", "έ", "τ", "ω", "ν">>

BlankLine == <<>>

SpacesLine == <<" ", " ">>

\* a line of the body without the trailing time and note
NoiseLine == <<"Σ", "ύ", "ν", "ο", "λ", "ο", " ", "π", "α", "κ", "έ", "τ", "ω", "ν">>

\* a line with the time and note but three parts only before them
ShortLine == <<"1", "0", "0", " ", "2", ".", "5", "0", " ", "2", "5", "0", ".", "0",
      "0", " ", "1", "2", ":", "3", "0", ":", "1", "5", " ", "1">>

NotesLine == <<"Σ", "η", "μ", "ε", "ι", "ώ", "σ", "ε", "ι", "ς", " ", ":">>

\* the companies of the trade lines, as their whitespace-separated tokens
Companies == {<<<<"Ε", "Λ", "Λ", "Α", "Κ", "Τ", "Ω", "Ρ">>, <<"Α", "Ε">>>>, <<<<"Α", "Λ", "Φ", "Α">>>>}

\* the numeric tokens of the trade lines with the numbers they write:
\* comma for thousands and point for decimals; the reverse; no separators
CommaThousands ==
    [volume |-> <<"1", ",", "0", "0", "0">>, price |-> <<"2", ".", "5", "0">>, value |-> <<"2", ",", "5", "0", "0", ".", "0", "0">>,
     ok |-> TRUE, nvolume |-> 1000, nprice |-> Dec(250, 2), nvalue |-> Dec(2500, 0)]

PointThousands ==
    [volume |-> <<"1", ".", "0", "0", "0">>, price |-> <<"2", ",", "5", "0">>, value |-> <<"2", ".", "5", "0", "0", ",", "0", "0">>,
     ok |-> FALSE, nvolume |-> 1000, nprice |-> Dec(250, 2), nvalue |-> Dec(2500, 0)]

Plain ==
    [volume |-> <<"7", "5">>, price |-> <<"1", "2", ".", "5">>, value |-> <<"9", "3", "7", ".", "5", "0">>,
     ok |-> TRUE, nvolume |-> 75, nprice |-> Dec(125, 1), nvalue |-> Dec(93750, 2)]

Numbers == {CommaThousands, PointThousands, Plain}

TimeText == <<"1", "2", ":", "3", "0", ":", "1", "5">>

NoteText == <<"1">>

\* a body line: company tokens, three numeric tokens, the time and the note
TradeLine(co, num, sep) ==
    JoinWith(sep, co \o <<num.volume, num.price, num.value, TimeText, NoteText>>)

\* the line of the scenario, "ΕΛΛΑΚΤΩΡ ΑΕ 1.000 2,50 2.500,00 12:30:15 1"
ScenarioLine == <<"Ε", "Λ", "Λ", "Α", "Κ", "Τ", "Ω", "Ρ", " ", "Α", "Ε", " ", "1", ".",
      "0", "0", "0", " ", "2", ",", "5", "0", " ", "2", ".", "5", "0", "0",
      ",", "0", "0", " ", "1", "2", ":", "3", "0", ":", "1", "5", " ", "1">>

TradeLines ==
    {TradeLine(co, num, <<" ">>) : co \in Companies, num \in Numbers}
        \cup {TradeLine(<<<<"Α", "Λ", "Φ", "Α">>>>, Plain, <<" ", "\t">>)}

PageLines ==
    TradeLines \cup {HeaderLine, LooseHeaderLine, BlankLine, SpacesLine,
                     NoiseLine, ShortLine, NotesLine}

\* the texts of at most MaxLines lines
PageTexts == UNION {[1..n -> PageLines] : n \in 0..MaxLines}

InitParse ==
    /\ pc = "parse_in"
    /\ text \in PageTexts
    /\ df = PyNone
    /\ OtherIdle({"parse"})

\* df = parse_block_table_from_page(text)
ParsePage ==
    /\ pc = "parse_in"
    /\ df' = parse_block_table_from_page(text)
    /\ pc' = "parse_done"
    /\ UNCHANGED <<text, normVars, pdfVars, ledgerVars>>

NextParse == ParsePage

SpecParse == InitParse /\ [][NextParse]_vars

-----------------------------------------------------------------------------
(* Claims about parse_block_table_from_page (SpecParse). *)

\* the record a trade line is to give
RecordOf(co, num) ==
    [Company |-> JoinWith(<<" ">>, co),
     Volume |-> num.nvolume, Price |-> num.nprice, Value |-> num.nvalue,
     ApprovalTime |-> TimeText, Note |-> NoteText]

\* C1 as stated: the header line followed by the scenario's line
\* "ΕΛΛΑΚΤΩΡ ΑΕ 1.000 2,50 2.500,00 12:30:15 1" gives exactly one record, with
\* company "ΕΛΛΑΚΤΩΡ ΑΕ", volume 1000, price 2.50, value 2500.00, approval
\* time "12:30:15" and note 1.
C1_ScenarioRecord ==
    (pc = "parse_done" /\ text = <<HeaderLine, ScenarioLine>>) =>
        /\ df.t = "DataFrame"
        /\ Len(df.v) = 1
        /\ df.v[1].Company = <<"Ε", "Λ", "Λ", "Α", "Κ", "Τ", "Ω", "Ρ", " ", "Α", "Ε">>
        /\ df.v[1].Volume = 1000
        /\ df.v[1].Price = Dec(250, 2)
        /\ df.v[1].Value = Dec(250000, 2)
        /\ df.v[1].ApprovalTime = <<"1", "2", ":", "3", "0", ":", "1", "5">>
        /\ DigitsValue(df.v[1].Note) = 1

\* C1 amended: for a body line made of company tokens, three numeric tokens,
\* the time and the note, whatever whitespace separates them, the call gives
\* exactly one record: the three tokens before the time are volume, price and
\* value from left to right, the tokens before them joined by single spaces
\* are the company, and the numbers are read with the comma as thousands
\* separator and the point as decimal point.  With the point as thousands
\* separator, as in the scenario's line, the call raises ValueError.
C1_TradeLineFields ==
    pc = "parse_done" =>
        \A co \in Companies, num \in Numbers, sep \in {<<" ">>, <<" ", "\t">>} :
            text = <<HeaderLine, TradeLine(co, num, sep)>> =>
                IF num.ok THEN df = DataFrame(<<RecordOf(co, num)>>)
                ELSE df = ValueError

\* the header line and "ΕΛΛΑΚΤΩΡ ΑΕ 1,000 2.50 2,500.00 12:30:15 1" were parsed
C1_Witness ==
    /\ pc = "parse_done"
    /\ text = <<HeaderLine, <<"Ε", "Λ", "Λ", "Α", "Κ", "Τ", "Ω", "Ρ", " ", "Α", "Ε", " ", "1", ",",
      "0", "0", "0", " ", "2", ".", "5", "0", " ", "2", ",", "5", "0", "0",
      ".", "0", "0", " ", "1", "2", ":", "3", "0", ":", "1", "5", " ", "1">>>>
    /\ df.t = "DataFrame"
    /\ Len(df.v) = 1
    /\ df.v[1].Volume = 1000

\* the index of the first line of body among `ends`, Len(body) + 1 when none is
FirstOf(body, ends) ==
    IF \E k \in 1..Len(body) : body[k] \in ends
    THEN CHOOSE k \in 1..Len(body) :
             body[k] \in ends /\ \A j \in 1..(k - 1) : body[j] \notin ends
    ELSE Len(body) + 1

\* row r is the record of trade line ln
IsRecordOf(r, ln) ==
    \E co \in Companies, num \in Numbers, sep \in {<<" ">>, <<" ", "\t">>} :
        ln = TradeLine(co, num, sep) /\ r = RecordOf(co, num)

\* C7 as stated: a body line without the trailing time and note, an empty or
\* whitespace-only line included, gives no row and does not end the body:
\* every later trade line before the marker line still gives its row.
C7_BlankLineSkipped ==
    (pc = "parse_done" /\ text # <<>> /\ text[1] = HeaderLine /\ df.t = "DataFrame") =>
        LET body == Tail(text)
            end  == FirstOf(body, {NotesLine})
        IN  \A i, j \in 1..(end - 1) :
                (/\ i < j
                 /\ body[i] \in {NoiseLine, BlankLine, SpacesLine}
                 /\ body[j] \in TradeLines)
                => \E r \in 1..Len(df.v) : IsRecordOf(df.v[r], body[j])

\* C7 amended: a body line that is not blank and lacks the trailing time and
\* note gives no row and does not end the body; the body ends at the first
\* line that is empty or whitespace-only or holds the marker (or at the end of
\* the text), and when the call returns a table, every trade line before that
\* line gives its row and no other line gives one.
C7_NoiseLineSkipped ==
    (pc = "parse_done" /\ text # <<>> /\ text[1] = HeaderLine /\ df.t = "DataFrame") =>
        LET body == Tail(text)
            end  == FirstOf(body, {NotesLine, BlankLine, SpacesLine})
        IN  /\ Len(df.v) = Cardinality({k \in 1..(end - 1) : body[k] \in TradeLines})
            /\ \A i, j \in 1..(end - 1) :
                   (i < j /\ body[i] = NoiseLine /\ body[j] \in TradeLines)
                   => \E r \in 1..Len(df.v) : IsRecordOf(df.v[r], body[j])

\* a line without the suffix came before a trade line, which gave its row
C7_Witness ==
    /\ pc = "parse_done"
    /\ text = <<HeaderLine, NoiseLine, TradeLine(<<<<"Α", "Λ", "Φ", "Α">>>>, Plain, <<" ">>)>>
    /\ df.t = "DataFrame"
    /\ Len(df.v) = 1

-----------------------------------------------------------------------------
(* extract_report_date. *)

\* DOW, the alternatives of the first group of DATE_RE
DOW ==
    {<<"Δ", "ε", "υ", "τ", "έ", "ρ", "α">>, <<"Τ", "ρ", "ί", "τ", "η">>, <<"Τ", "ε", "τ", "ά", "ρ", "τ", "η">>, <<"Π", "έ", "μ", "π", "τ", "η">>,
     <<"Π", "α", "ρ", "α", "σ", "κ", "ε", "υ", "ή">>, <<"Σ", "ά", "β", "β", "α", "τ", "ο">>, <<"Κ", "υ", "ρ", "ι", "α", "κ", "ή">>}

\* GREEK_MONTHS
GREEK_MONTHS ==
    <<<<<<"Ι", "α", "ν", "ο", "υ", "α", "ρ", "ί", "ο", "υ">>, 1>>, <<<<"Φ", "ε", "β", "ρ", "ο", "υ", "α", "ρ", "ί", "ο", "υ">>, 2>>, <<<<"Μ", "α", "ρ", "τ", "ί", "ο", "υ">>, 3>>,
      <<<<"Α", "π", "ρ", "ι", "λ", "ί", "ο", "υ">>, 4>>, <<<<"Μ", "α", "ΐ", "ο", "υ">>, 5>>, <<<<"Μ", "α", "ί", "ο", "υ">>, 5>>,
      <<<<"Ι", "ο", "υ", "ν", "ί", "ο", "υ">>, 6>>, <<<<"Ι", "ο", "υ", "λ", "ί", "ο", "υ">>, 7>>, <<<<"Α", "υ", "γ", "ο", "ύ", "σ", "τ", "ο", "υ">>, 8>>,
      <<<<"Σ", "ε", "π", "τ", "ε", "μ", "β", "ρ", "ί", "ο", "υ">>, 9>>, <<<<"Ο", "κ", "τ", "ω", "β", "ρ", "ί", "ο", "υ">>, 10>>, <<<<"Ν", "ο", "ε", "μ", "β", "ρ", "ί", "ο", "υ">>, 11>>,
      <<<<"Δ", "ε", "κ", "ε", "μ", "β", "ρ", "ί", "ο", "υ">>, 12>>>>

\* the table `fallback` of lines 51-54
FallbackMonths ==
    <<<<<<"Ι", "α", "ν", "ο", "υ", "α", "ρ", "ι", "ο", "υ">>, 1>>, <<<<"Φ", "ε", "β", "ρ", "ο", "υ", "α", "ρ", "ι", "ο", "υ">>, 2>>, <<<<"Μ", "α", "ρ", "τ", "ι", "ο", "υ">>, 3>>,
      <<<<"Α", "π", "ρ", "ι", "λ", "ι", "ο", "υ">>, 4>>, <<<<"Μ", "α", "ι", "ο", "υ">>, 5>>, <<<<"Ι", "ο", "υ", "ν", "ι", "ο", "υ">>, 6>>,
      <<<<"Ι", "ο", "υ", "λ", "ι", "ο", "υ">>, 7>>, <<<<"Α", "υ", "γ", "ο", "υ", "σ", "τ", "ο", "υ">>, 8>>, <<<<"Σ", "ε", "π", "τ", "ε", "μ", "β", "ρ", "ι", "ο", "υ">>, 9>>,
      <<<<"Ο", "κ", "τ", "ω", "β", "ρ", "ι", "ο", "υ">>, 10>>, <<<<"Ν", "ο", "ε", "μ", "β", "ρ", "ι", "ο", "υ">>, 11>>, <<<<"Δ", "ε", "κ", "ε", "μ", "β", "ρ", "ι", "ο", "υ">>, 12>>>>

\* table.get(key): the number of the month, 0 (None) for a key not in the table
Lookup(table, key) ==
    IF \E i \in 1..Len(table) : table[i][1] = key
    THEN table[CHOOSE i \in 1..Len(table) : table[i][1] = key][2]
    ELSE 0

\* the characters of the model outside the class of DATE_RE's third group,
\* [A-Ω...a-z...ά-ώ...]: whitespace, digits and punctuation below "A"
IsMonthChar(c) ==
    ~IsSpace(c) /\ ~IsDigit(c) /\ c \notin {",", ".", ":", "(", ")", "-"}

\* c is of the regular-expression class: \s, \d, or the class of group 3
InClass(class, c) ==
    CASE class = "s" -> IsSpace(c)
      [] class = "d" -> IsDigit(c)
      [] class = "month" -> IsMonthChar(c)

RECURSIVE RunEnd(_, _, _)
\* the index after the maximal run of characters of a class that starts at j
RunEnd(cs, j, class) ==
    IF j <= Len(cs) /\ InClass(class, cs[j]) THEN RunEnd(cs, j + 1, class) ELSE j

\* sub is in cs at position i
OccursAt(cs, sub, i) ==
    i + Len(sub) - 1 <= Len(cs) /\ SubSeq(cs, i, i + Len(sub) - 1) = sub

\* DATE_RE matches at position i of cs:
\* DOW ,? \s+ (\d{1,2}) \s+ ([letters]+) , \s+ (\d{4})
DateMatchAt(cs, i) ==
    IF \E w \in DOW : OccursAt(cs, w, i)
    THEN LET w  == CHOOSE w \in DOW : OccursAt(cs, w, i)
             a  == i + Len(w)
             b  == IF a <= Len(cs) /\ cs[a] = "," THEN a + 1 ELSE a
             c  == RunEnd(cs, b, "s")
             d  == RunEnd(cs, c, "d")
             e  == RunEnd(cs, d, "s")
             f  == RunEnd(cs, e, "month")
             g  == f + 1
             h  == RunEnd(cs, g, "s")
             y  == SubSeq(cs, h, h + 3)
         IN  IF /\ c > b
                /\ d - c \in {1, 2}
                /\ e > d
                /\ f > e
                /\ f <= Len(cs) /\ cs[f] = ","
                /\ h > g
                /\ h + 3 <= Len(cs)
                /\ \A k \in 1..4 : IsDigit(y[k])
             THEN [found |-> TRUE, day |-> SubSeq(cs, c, d - 1),
                   month_name |-> SubSeq(cs, e, f - 1), year |-> y]
             ELSE [found |-> FALSE, day |-> <<>>, month_name |-> <<>>, year |-> <<>>]
    ELSE [found |-> FALSE, day |-> <<>>, month_name |-> <<>>, year |-> <<>>]

\* DATE_RE.search(text): the leftmost match
DateSearch(cs) ==
    IF \E i \in 1..Len(cs) : DateMatchAt(cs, i).found
    THEN DateMatchAt(cs, CHOOSE i \in 1..Len(cs) :
                             /\ DateMatchAt(cs, i).found
                             /\ \A j \in 1..(i - 1) : ~DateMatchAt(cs, j).found)
    ELSE [found |-> FALSE, day |-> <<>>, month_name |-> <<>>, year |-> <<>>]

\* lines 48-55: the month of a month name, 0 when neither table holds it
MonthOf(month_name) ==
    IF Lookup(GREEK_MONTHS, month_name) # 0
    THEN Lookup(GREEK_MONTHS, month_name)
    ELSE Lookup(FallbackMonths, Deaccent(month_name))

\* the days of a month of the proleptic Gregorian calendar
DaysInMonth(y, m) ==
    IF m \in {4, 6, 9, 11} THEN 30
    ELSE IF m # 2 THEN 31
    ELSE IF y % 4 = 0 /\ (y % 100 # 0 \/ y % 400 = 0) THEN 29
    ELSE 28

\* dt.date(year, month, day) returns: otherwise it raises ValueError
IsCalendarDate(y, m, d) ==
    y \in 1..9999 /\ m \in 1..12 /\ d \in 1..DaysInMonth(y, m)

PyDate(y, m, d) == [t |-> "date", v |-> <<y, m, d>>]

\* the text of a page, page.extract_text(): its lines joined by newlines
PageText(page) == JoinWith(<<"\n">>, page)

\* line 57: dt.date raises on a day the month does not have
BadDate(rest) == ValueError

RECURSIVE extract_report_date(_)
\* extract_report_date over the pages of the document
extract_report_date(pages) ==
    IF pages = <<>> THEN PyNone
    ELSE LET m     == DateSearch(PageText(Head(pages)))
             day   == DigitsValue(m.day)
             year  == DigitsValue(m.year)
             month == MonthOf(m.month_name)
             rest  == extract_report_date(Tail(pages))
         IN  IF ~m.found \/ month = 0 THEN rest
             ELSE IF IsCalendarDate(year, month, day) THEN PyDate(year, month, day)
             ELSE BadDate(rest)

-----------------------------------------------------------------------------
(* locate_block_trade_pages and extract_block_trades. *)

BLOCK_KEYWORDS ==
    {<<"Σ", "τ", "ο", "ι", "χ", "ε", "ί", "α", " ", "Σ", "υ", "ν", "α", "λ",
      "λ", "α", "γ", "ώ", "ν", " ", "Π", "α", "κ", "έ", "τ", "ω", "ν">>,
     <<"Π", "ί", "ν", "α", "κ", "α", "ς", " ", "Π", "ρ", "ο", "σ", "υ", "μ",
      "φ", "ω", "ν", "η", "μ", "έ", "ν", "ω", "ν", " ", "Σ", "υ", "ν", "α",
      "λ", "λ", "α", "γ", "ώ", "ν">>,
     <<"Χ", "ρ", "ε", "ό", "γ", "ρ", "α", "φ", "α", " ", "Ό", "γ", "κ", "ο",
      "ς", " ", "π", "α", "κ", "έ", "τ", "ο", "υ", " ", "Τ", "ι", "μ", "ή",
      " ", "π", "α", "κ", "έ", "τ", "ο", "υ", " ", "Α", "ξ", "ί", "α", " ",
      "π", "α", "κ", "έ", "τ", "ο", "υ", " ", "Ώ", "ρ", "α", " ", "έ", "γ",
      "κ", "ρ", "ι", "σ", "η", "ς">>}

\* line 65: the text of the page holds one of the keywords
IsBlockPage(page) == \E k \in BLOCK_KEYWORDS : Contains(PageText(page), k)

\* locate_block_trade_pages: the indexes of the flagged pages, in page order
locate_block_trade_pages(pages) == {i \in 1..Len(pages) : IsBlockPage(pages[i])}

\* line 110: the rows of a page's table with the report date put in front
Dated(rows, date) ==
    [i \in 1..Len(rows) |->
        [Date |-> date, Company |-> rows[i].Company, Volume |-> rows[i].Volume,
         Price |-> rows[i].Price, Value |-> rows[i].Value,
         ApprovalTime |-> rows[i].ApprovalTime, Note |-> rows[i].Note]]

RECURSIVE FramesFrom(_, _, _, _)
\* lines 106-113: the tables of the flagged pages from page i on, concatenated;
\* ValueError when parsing one of them raises
FramesFrom(pages, flagged, date, i) ==
    IF i > Len(pages) THEN DataFrame(<<>>)
    ELSE LET rest == FramesFrom(pages, flagged, date, i + 1)
             here == parse_block_table_from_page(pages[i])
         IN  IF i \notin flagged THEN rest
             ELSE IF here = ValueError \/ rest = ValueError THEN ValueError
             ELSE DataFrame(Dated(here.v, date) \o rest.v)

\* extract_block_trades
extract_block_trades(pages) ==
    LET report_date == extract_report_date(pages) IN
    IF report_date = ValueError THEN ValueError
    ELSE FramesFrom(pages, locate_block_trade_pages(pages), report_date, 1)

-----------------------------------------------------------------------------
(* The documents explored: at most MaxPages pages. *)

DateLine == <<"Δ", "ε", "υ", "τ", "έ", "ρ", "α", ",", " ", "4", " ", "Μ", "α", "ρ",
      "τ", "ί", "ο", "υ", ",", " ", "2", "0", "2", "4">>

\* a date line whose month is written without its accent
UnaccentedDateLine == <<"Τ", "ρ", "ί", "τ", "η", ",", " ", "5", " ", "Μ", "α", "ρ", "τ", "ι",
      "ο", "υ", ",", " ", "2", "0", "2", "4">>

\* a date line of the pattern whose day the month does not have
BadDayLine == <<"Π", "α", "ρ", "α", "σ", "κ", "ε", "υ", "ή", ",", " ", "3", "0", " ",
      "Φ", "ε", "β", "ρ", "ο", "υ", "α", "ρ", "ί", "ο", "υ", ",", " ", "2",
      "0", "2", "4">>

\* a date line of the pattern whose month is in neither table
UnknownMonthLine == <<"Τ", "ρ", "ί", "τ", "η", ",", " ", "5", " ", "Μ", "α", "ρ", "τ", ",",
      " ", "2", "0", "2", "4">>

PageCover == <<DateLine>>

PageLaterDate == <<UnaccentedDateLine>>

PageBadDay == <<BadDayLine>>

PageUnknownMonth == <<UnknownMonthLine>>

PageTable ==
    <<TitleLine, HeaderLine,
      TradeLine(<<<<"Ε", "Λ", "Λ", "Α", "Κ", "Τ", "Ω", "Ρ">>, <<"Α", "Ε">>>>, CommaThousands, <<" ">>), NotesLine>>

PageTableContinued == <<HeaderLine, TradeLine(<<<<"Α", "Λ", "Φ", "Α">>>>, Plain, <<" ">>)>>

\* a table under a header line that is not, character for character, the keyword
PageLooseTable == <<LooseHeaderLine, TradeLine(<<<<"Α", "Λ", "Φ", "Α">>>>, Plain, <<" ">>)>>

PageTitleOnly == <<<<"Π", "ί", "ν", "α", "κ", "α", "ς", " ", "Π", "ρ", "ο", "σ", "υ", "μ",
      "φ", "ω", "ν", "η", "μ", "έ", "ν", "ω", "ν", " ", "Σ", "υ", "ν", "α",
      "λ", "λ", "α", "γ", "ώ", "ν">>>>

\* a page with no text: extract_text() gives None
PageEmpty == <<>>

Pages ==
    {PageCover, PageLaterDate, PageBadDay, PageUnknownMonth, PageTable,
     PageTableContinued, PageLooseTable, PageTitleOnly, PageEmpty}

Documents == UNION {[1..n -> Pages] : n \in 0..MaxPages}

InitPdf ==
    /\ pc = "pdf_in"
    /\ pdf \in Documents
    /\ report = PyNone
    /\ OtherIdle({"pdf"})

\* report = extract_report_date(pdf)
ExtractReportDate ==
    /\ pc = "pdf_in"
    /\ report' = extract_report_date(pdf)
    /\ pc' = "date_done"
    /\ UNCHANGED <<pdf, normVars, parseVars, ledgerVars>>

\* report = extract_block_trades(pdf)
ExtractBlockTrades ==
    /\ pc = "pdf_in"
    /\ report' = extract_block_trades(pdf)
    /\ pc' = "trades_done"
    /\ UNCHANGED <<pdf, normVars, parseVars, ledgerVars>>

NextPdf == ExtractReportDate \/ ExtractBlockTrades

SpecPdf == InitPdf /\ [][NextPdf]_vars

\* the page has a match of the date pattern that gives a calendar date
Resolvable(page) ==
    LET m == DateSearch(PageText(page)) IN
    /\ m.found
    /\ MonthOf(m.month_name) # 0
    /\ IsCalendarDate(DigitsValue(m.year), MonthOf(m.month_name), DigitsValue(m.day))

\* C8: extract_report_date never fails: it passes over a match of the date
\* pattern that gives no calendar date, and returns the date of the first page
\* with a match that gives one, or None when no page has one.
C8_ScanNeverFails ==
    pc = "date_done" =>
        /\ report # ValueError
        /\ LET good == {i \in 1..Len(pdf) : Resolvable(pdf[i])} IN
           IF good = {} THEN report = PyNone
           ELSE LET i == CHOOSE i \in good : \A j \in good : i <= j
                    m == DateSearch(PageText(pdf[i]))
                IN  report = PyDate(DigitsValue(m.year), MonthOf(m.month_name),
                                    DigitsValue(m.day))

RECURSIVE AllRows(_)
\* the rows parse_block_table_from_page gives for every page, in page order
AllRows(pages) ==
    IF pages = <<>> THEN <<>>
    ELSE parse_block_table_from_page(Head(pages)).v \o AllRows(Tail(pages))

\* C9: the table extract_block_trades returns is the concatenation, in page
\* order, of the rows of every page parse_block_table_from_page finds a table
\* on: no such page is left out; and every row carries the report date.
C9_EveryTableIncluded ==
    (pc = "trades_done" /\ report.t = "DataFrame") =>
        /\ report.v = Dated(AllRows(pdf), extract_report_date(pdf))
        /\ \A i \in 1..Len(pdf) :
               parse_block_table_from_page(pdf[i]).v # <<>> => IsBlockPage(pdf[i])

-----------------------------------------------------------------------------
(* The worksheet: openpyxl's Worksheet over its dictionary of cells. *)

\* a worksheet with no cell
EmptySheet == [p \in {} |-> PyNone]

MaxOf(S) == CHOOSE x \in S : \A y \in S : y <= x

\* ws.max_row: the largest row of a cell, 1 for a sheet with no cell
max_row(w) == IF DOMAIN w = {} THEN 1 ELSE MaxOf({p[1] : p \in DOMAIN w})

\* ws.max_column
max_column(w) == IF DOMAIN w = {} THEN 1 ELSE MaxOf({p[2] : p \in DOMAIN w})

\* ws.cell(row=r, column=c): the sheet after the call, which creates the cell
\* when there is none
cell(w, r, c) ==
    IF <<r, c>> \in DOMAIN w THEN w ELSE w @@ (<<r, c>> :> PyNone)

\* ws.cell(row=r, column=c).value
value_at(w, r, c) == IF <<r, c>> \in DOMAIN w THEN w[<<r, c>>] ELSE PyNone

\* ws.cell(row=r, column=c, value=v): a value of None is not written
set_cell(w, r, c, v) ==
    IF v = PyNone THEN cell(w, r, c)
    ELSE [p \in DOMAIN w \cup {<<r, c>>} |-> IF p = <<r, c>> THEN v ELSE w[p]]

\* bool(x)
Truthy(x) ==
    CASE x.t = "NoneType" -> FALSE
      [] x.t = "int" -> x.v # 0
      [] x.t = "str" -> x.v # <<>>
      [] OTHER -> TRUE

RECURSIVE IntText(_)
\* str(n) for n >= 0
IntText(n) ==
    IF n < 10 THEN <<Digits[n + 1]>>
    ELSE IntText(n \div 10) \o <<Digits[(n % 10) + 1]>>

\* str(x) for a header cell holding a str or an int
StrOf(x) == IF x.t = "str" THEN x.v ELSE IntText(x.v)

\* dt.datetime.combine(date, dt.time()): the date at midnight
Midnight(date) == PyDateTime(date.v, 0)

-----------------------------------------------------------------------------
(* find_or_create_date_row. *)

\* the call raised an exception the caller catches
Exception == [t |-> "Exception", v |-> <<>>]

\* the text is a date written dd/mm/yyyy
IsDayFirstText(cs) ==
    /\ Len(cs) = 10
    /\ \A i \in {1, 2, 4, 5, 7, 8, 9, 10} : IsDigit(cs[i])
    /\ cs[3] = "/" /\ cs[6] = "/"
    /\ IsCalendarDate(DigitsValue(SubSeq(cs, 7, 10)), DigitsValue(SubSeq(cs, 4, 5)),
                      DigitsValue(SubSeq(cs, 1, 2)))

\* pd.to_datetime(val, dayfirst=True).date() on the values the ledgers of the
\* model hold in column 1: a datetime, a date, a number (nanoseconds since
\* 1970), a text dd/mm/yyyy, and a text that is no date (the call raises)
ToDate(val) ==
    CASE val.t = "datetime" -> [t |-> "date", v |-> val.v[1]]
      [] val.t = "date" -> val
      [] val.t = "int" -> PyDate(1970, 1, 1)
      [] val.t = "str" /\ IsDayFirstText(val.v) ->
             PyDate(DigitsValue(SubSeq(val.v, 7, 10)), DigitsValue(SubSeq(val.v, 4, 5)),
                    DigitsValue(SubSeq(val.v, 1, 2)))
      [] OTHER -> Exception

RECURSIVE ScanRows(_, _, _, _)
\* lines 120-129: the scan of column 1 from row r to row last; row is 0 when
\* no row holds the target date
ScanRows(w, r, last, target) ==
    IF r > last THEN [ws |-> w, row |-> 0]
    ELSE LET w1  == cell(w, r, 1)
             val == w1[<<r, 1>>]
         IN  IF val # PyNone /\ ToDate(val) = target
             THEN [ws |-> w1, row |-> r]
             ELSE ScanRows(w1, r + 1, last, target)

\* find_or_create_date_row(ws, target_date): the sheet after the call and the
\* row returned
find_or_create_date_row(w, target) ==
    LET last == max_row(w)
        scan == ScanRows(w, 3, last, target)
    IN  IF scan.row # 0 THEN scan
        ELSE [ws  |-> set_cell(scan.ws, last + 1, 1, Midnight(target)),
              row |-> last + 1]

-----------------------------------------------------------------------------
(* read_company_header_positions. *)

\* a variant of DictSet that keeps the item a key already has
DictSetKeepFirst(d, key, c, txt) ==
    IF \E i \in 1..Len(d) : d[i].key = key THEN d
    ELSE Append(d, [key |-> key, col |-> c, txt |-> txt])

\* positions[key] = (c, txt) on a dict kept as the sequence of its items
DictSet(d, key, c, txt) ==
    IF \E i \in 1..Len(d) : d[i].key = key
    THEN [i \in 1..Len(d) |->
             IF d[i].key = key THEN [key |-> key, col |-> c, txt |-> txt] ELSE d[i]]
    ELSE Append(d, [key |-> key, col |-> c, txt |-> txt])

\* key in d
HasKey(d, key) == \E i \in 1..Len(d) : d[i].key = key

\* line 148: c += 4
HeaderStride == 4

RECURSIVE ReadHeaders(_, _, _, _)
\* lines 143-148: the loop from column c on
ReadHeaders(w, c, last, positions) ==
    IF c > last THEN [ws |-> w, positions |-> positions]
    ELSE LET w1     == cell(w, 2, c)
             header == w1[<<2, c>>]
             txt    == Strip(StrOf(header))
         IN  IF Truthy(header) /\ txt # <<>>
             THEN ReadHeaders(w1, c + HeaderStride, last,
                              DictSet(positions, NormStr(txt), c, txt))
             ELSE ReadHeaders(w1, c + HeaderStride, last, positions)

\* read_company_header_positions(ws): the sheet after the call and the dict
read_company_header_positions(w) == ReadHeaders(w, 2, max_column(w), <<>>)

-----------------------------------------------------------------------------
(* The grouping of main, volume_formula, price_list_greek, fill_row. *)

\* the Volume column of the rows of df_norm whose CompanyNorm is comp
VolumesOf(rows, comp) ==
    LET g == SelectSeq(rows, LAMBDA r : NormStr(r.Company) = comp)
    IN  [i \in 1..Len(g) |-> g[i].Volume]

PricesOf(rows, comp) ==
    LET g == SelectSeq(rows, LAMBDA r : NormStr(r.Company) = comp)
    IN  [i \in 1..Len(g) |-> g[i].Price]

\* lines 273-277: trades_map, a dict from the normalized company to the
\* volumes and prices of its rows, in the order of the rows
TradesMap(rows) ==
    [comp \in {NormStr(rows[i].Company) : i \in 1..Len(rows)} |->
        [volumes |-> VolumesOf(rows, comp), prices |-> PricesOf(rows, comp)]]

\* f"{p:.2f}".replace(".", ",") for a price of at most two decimals
PriceText(p) ==
    LET cents == IF p[2] = 0 THEN 100 * p[1] ELSE IF p[2] = 1 THEN 10 * p[1] ELSE p[1]
    IN  IntText(cents \div 100) \o <<",">> \o
        <<Digits[((cents % 100) \div 10) + 1], Digits[(cents % 10) + 1]>>

\* price_list_greek
price_list_greek(prices) ==
    PyStr(JoinWith(<<"-">>, [i \in 1..Len(prices) |-> PriceText(prices[i])]))

\* a variant of volume_formula that writes the formula for one volume too
volume_formula_always(volumes) ==
    IF volumes = <<>> THEN PyNone
    ELSE PyStr(<<"=">> \o JoinWith(<<"+">>, [i \in 1..Len(volumes) |-> IntText(volumes[i])]))

\* volume_formula
volume_formula(volumes) ==
    IF volumes = <<>> THEN PyNone
    ELSE IF Len(volumes) = 1 THEN PyInt(volumes[1])
    ELSE PyStr(<<"=">> \o JoinWith(<<"+">>, [i \in 1..Len(volumes) |-> IntText(volumes[i])]))

\* a variant of FillBlock that blanks the block of a company without trades
FillBlockZeroing(w, row_idx, e, trades, date_obj) ==
    LET w0 == set_cell(w, row_idx, e.col, Midnight(date_obj)) IN
    IF e.key \notin DOMAIN trades
    THEN set_cell(set_cell(set_cell(w0, row_idx, e.col + 1, PyInt(0)),
                           row_idx, e.col + 2, PyInt(0)),
                  row_idx, e.col + 3, PyStr(<<>>))
    ELSE LET data == trades[e.key]
             w1   == set_cell(w0, row_idx, e.col + 1, volume_formula(data.volumes))
             w2   == set_cell(w1, row_idx, e.col + 2, PyInt(Len(data.volumes)))
         IN  set_cell(w2, row_idx, e.col + 3, price_list_greek(data.prices))

\* lines 184-192, one iteration of the loop of fill_row, for the item e of
\* header_pos
FillBlock(w, row_idx, e, trades, date_obj) ==
    LET w0 == set_cell(w, row_idx, e.col, Midnight(date_obj)) IN
    IF e.key \notin DOMAIN trades THEN w0
    ELSE LET data == trades[e.key]
             w1   == set_cell(w0, row_idx, e.col + 1, volume_formula(data.volumes))
             w2   == set_cell(w1, row_idx, e.col + 2, PyInt(Len(data.volumes)))
         IN  set_cell(w2, row_idx, e.col + 3, price_list_greek(data.prices))

RECURSIVE fill_row(_, _, _, _, _)
\* fill_row(ws, row_idx, header_pos, trades, date_obj): the sheet after the call
fill_row(w, row_idx, header_pos, trades, date_obj) ==
    IF header_pos = <<>> THEN w
    ELSE fill_row(FillBlock(w, row_idx, Head(header_pos), trades, date_obj),
                  row_idx, Tail(header_pos), trades, date_obj)

-----------------------------------------------------------------------------
(* write_pdf_sheet. *)

\* a variant of MatchedFlag that looks the raw company text up
MatchedFlagRaw(company, header_pos) ==
    IF HasKey(header_pos, company) THEN "Yes" ELSE "No"

\* lines 206-207: "Yes" when the normalized company is a key of header_pos
MatchedFlag(company, header_pos) ==
    IF HasKey(header_pos, NormStr(company)) THEN "Yes" ELSE "No"

\* the sheet write_pdf_sheet creates: the labels of row 1 and, for row i of
\* df_pdf, the values and the fill of sheet row i + 1
AuditSheet(rows, header_pos) ==
    [labels |-> <<"Company", "Volume", "Price", "Value", "ApprovalTime", "Note", "Matched">>,
     rows   |-> [i \in 1..Len(rows) |->
                    LET flag == MatchedFlag(rows[i].Company, header_pos) IN
                    [Company |-> rows[i].Company, Volume |-> rows[i].Volume,
                     Price |-> rows[i].Price, Value |-> rows[i].Value,
                     ApprovalTime |-> rows[i].ApprovalTime, Note |-> rows[i].Note,
                     Matched |-> flag,
                     fill |-> IF flag = "Yes" THEN "C6EFCE" ELSE "FFC7CE"]],
     width  |-> 18]

\* write_pdf_sheet(wb, sheet_name, df_pdf, header_pos) on the sheets of the
\* workbook other than Master: a sheet of that name is replaced
write_pdf_sheet(sheets, sheet_name, rows, header_pos) ==
    [n \in DOMAIN sheets \cup {sheet_name} |->
        IF n = sheet_name THEN AuditSheet(rows, header_pos) ELSE sheets[n]]

\* two digits of n
TwoDigits(n) == <<Digits[(n \div 10) + 1], Digits[(n % 10) + 1]>>

\* report_date.strftime("%d.%m.%Y")
DateLabel(date) ==
    TwoDigits(date.v[3]) \o <<".">> \o TwoDigits(date.v[2]) \o <<".">>
        \o TwoDigits(date.v[1] \div 100) \o TwoDigits(date.v[1] % 100)

-----------------------------------------------------------------------------
(* Ledgers, and find_or_create_date_row called on them (SpecRow). *)

D1 == PyDate(2024, 3, 4)

D2 == PyDate(2024, 3, 5)

\* the sheet holding the cells <<row, column, value>>
SheetOf(cells) ==
    [p \in {<<t[1], t[2]>> : t \in cells} |->
        (CHOOSE t \in cells : <<t[1], t[2]>> = p)[3]]

\* what column 1 of a data row holds: nothing, the dates as the program
\* writes them, a date with a time of day, a date as text, a text that is
\* no date
ColumnValues ==
    {PyNone, Midnight(D1), PyDateTime(D2.v, 3600),
     PyStr(<<"0", "4", "/", "0", "3", "/", "2", "0", "2", "4">>), PyStr(<<"Σ", "ύ", "ν", "ο", "λ", "ο">>)}

\* the data rows hold every date at most once
NoDuplicateDates(w) ==
    \A p, q \in DOMAIN w :
        (/\ p[2] = 1 /\ q[2] = 1 /\ p[1] >= 3 /\ q[1] > p[1]
         /\ w[p] # PyNone /\ w[q] # PyNone /\ ToDate(w[p]) # Exception)
        => ToDate(w[p]) # ToDate(w[q])

\* the ledgers: a sheet with no cell, a sheet with row 1 only, and sheets with
\* the header row and up to MaxDataRows data rows without duplicate dates
RowLedgers ==
    {EmptySheet, SheetOf({<<1, 1, PyStr(<<"B", "l", "o", "c", "k", " ", "T", "r", "a", "d", "e", "s">>)>>})}
    \cup
    {w \in {SheetOf({<<2, 2, PyStr(<<"Α", "Λ", "Φ", "Α", " ", "(", "Κ", "Ο", ")">>)>>}
                    \cup {<<2 + i, 1, col[i]>> : i \in 1..n}) :
                n \in 0..MaxDataRows, col \in [1..MaxDataRows -> ColumnValues]} :
        NoDuplicateDates(w)}

InitRow ==
    /\ pc = "row"
    /\ ws \in RowLedgers
    /\ arg = PyNone
    /\ ret = <<>>
    /\ sheet = <<>>
    /\ OtherIdle({"ledger"})

\* row = find_or_create_date_row(ws, target): ret records the calls made,
\* with the last row of the sheet before each call
FindOrCreate(target) ==
    /\ pc = "row"
    /\ Len(ret) < MaxCalls
    /\ LET out == find_or_create_date_row(ws, target) IN
       /\ ws' = out.ws
       /\ ret' = Append(ret, [date |-> target, row |-> out.row, last |-> max_row(ws),
                              rows |-> Cardinality({p \in DOMAIN ws : p[2] = 1 /\ ws[p] # PyNone}),
                              rows_after |-> Cardinality({p \in DOMAIN out.ws : p[2] = 1 /\ out.ws[p] # PyNone})])
    /\ arg' = target
    /\ UNCHANGED <<pc, sheet, normVars, parseVars, pdfVars>>

NextRow == \E target \in {D1, D2} : FindOrCreate(target)

SpecRow == InitRow /\ [][NextRow]_vars

\* C2: find_or_create_date_row called again with the same date on the ledger
\* the first call left returns the same row and appends no row; so the data
\* rows (row 3 downward) hold every date at most once, and a row is only
\* created past the last row.
C2_SameRowTwice ==
    /\ \A k \in 1..(Len(ret) - 1) :
           ret[k].date = ret[k + 1].date =>
               /\ ret[k + 1].row = ret[k].row
               /\ ret[k + 1].rows_after = ret[k + 1].rows
    /\ \A k \in 1..Len(ret) :
           ret[k].rows_after # ret[k].rows => ret[k].row > ret[k].last
    /\ NoDuplicateDates(ws)

-----------------------------------------------------------------------------
(* read_company_header_positions on the header rows of ledgers (SpecHeader). *)

\* what a cell of row 2 at a column 2, 6, 10, ... holds: no cell, an empty
\* cell, the number 0, a blank text, and company names, two of them spellings
\* of one company
HeaderValues ==
    {PyNone, PyInt(0), PyStr(<<" ", " ">>), PyStr(<<"Α", "Λ", "Φ", "Α", " ", "(", "Κ", "Ο", ")">>),
     PyStr(<<"Ά", "λ", "φ", "α", "(", "κ", "ο", ")">>), PyStr(<<" ", "Ε", "Λ", "Λ", "Α", "Κ", "Τ", "Ω", "Ρ", " ", " ", "Α", "Ε">>)}

\* the anchor columns of the first MaxBlocks blocks
Anchors == {4 * k - 2 : k \in 1..MaxBlocks}

\* the header rows: a value, or no cell, at every anchor column, and a label
\* or no cell in the column after it
HeaderLedgers ==
    {SheetOf({<<2, c, hv[c]>> : c \in has}
             \cup {<<2, c + 1, PyStr(<<"Σ", "Π", "Α", "Κ", "Ε", "Τ", "Ω", "Ν">>)>> : c \in labelled}
             \cup {<<1, 1, PyStr(<<"B", "l", "o", "c", "k", " ", "T", "r", "a", "d", "e", "s">>)>>}) :
        hv \in [Anchors -> HeaderValues], has \in SUBSET Anchors,
        labelled \in SUBSET Anchors}

InitHeader ==
    /\ pc = "header_in"
    /\ ws \in HeaderLedgers
    /\ arg = PyNone
    /\ ret = <<>>
    /\ sheet = <<>>
    /\ OtherIdle({"ledger"})

\* ret = read_company_header_positions(ws); arg keeps the sheet as it was
ReadHeaderPositions ==
    /\ pc = "header_in"
    /\ LET out == read_company_header_positions(ws) IN
       /\ ws' = out.ws
       /\ ret' = out.positions
    /\ arg' = ws
    /\ pc' = "header_done"
    /\ UNCHANGED <<sheet, normVars, parseVars, pdfVars>>

NextHeader == ReadHeaderPositions

SpecHeader == InitHeader /\ [][NextHeader]_vars

\* the anchor columns of sheet w, up to its last column, whose cell of row 2
\* holds a header: a value that is true and whose text is not blank
HeaderColumns(w) ==
    {c \in 2..max_column(w) :
        /\ c % 4 = 2
        /\ Truthy(value_at(w, 2, c))
        /\ Strip(StrOf(value_at(w, 2, c))) # <<>>}

\* the normalized text of the header at column c
KeyAt(w, c) == NormStr(Strip(StrOf(value_at(w, 2, c))))

\* C5 as stated: the header map has one entry for each header cell of row 2 at
\* columns 2, 6, 10, ... up to the last column, carrying that column as anchor;
\* so headers at columns 2 and 6 only give exactly 2 entries, at columns 2 and
\* 6, whatever the two texts are.
C5_OneEntryPerCell ==
    pc = "header_done" =>
        /\ Len(ret) = Cardinality(HeaderColumns(arg))
        /\ {ret[i].col : i \in 1..Len(ret)} = HeaderColumns(arg)

\* C5 amended: the header map has one entry for each distinct normalized text
\* of the header cells of row 2 at columns 2, 6, 10, ... up to the last column
\* (cells whose value is true and whose text is not blank), carrying the last
\* column with that normalized text as anchor and that cell's stripped text; so
\* headers at columns 2 and 6 only give 2 entries, at columns 2 and 6, when
\* their texts normalize differently, and 1 entry, at column 6, when they
\* normalize to the same text.
C5_OneEntryPerName ==
    pc = "header_done" =>
        LET cols == HeaderColumns(arg) IN
        /\ Len(ret) = Cardinality({KeyAt(arg, c) : c \in cols})
        /\ \A c \in cols :
               \E i \in 1..Len(ret) :
                   /\ ret[i].key = KeyAt(arg, c)
                   /\ ret[i].col = MaxOf({d \in cols : KeyAt(arg, d) = KeyAt(arg, c)})
                   /\ ret[i].txt = Strip(StrOf(value_at(arg, 2, ret[i].col)))
        /\ \A i \in 1..Len(ret) : ret[i].col \in cols
        /\ cols = {2, 6} =>
               IF KeyAt(arg, 2) # KeyAt(arg, 6)
               THEN {ret[i].col : i \in 1..Len(ret)} = {2, 6} /\ Len(ret) = 2
               ELSE {ret[i].col : i \in 1..Len(ret)} = {6} /\ Len(ret) = 1

\* headers at columns 2 and 6 only, two spellings of one company
C5_Witness ==
    /\ pc = "header_done"
    /\ HeaderColumns(arg) = {2, 6}
    /\ value_at(arg, 2, 2) # value_at(arg, 2, 6)
    /\ Len(ret) = 1
    /\ ret[1].col = 6

-----------------------------------------------------------------------------
(* main: the document is parsed, the row of the report date is found or made,
   the headers are read, the row is filled and the audit sheet is written
   (Spec). *)

TradeA100 ==
    [volume |-> <<"1", "0", "0">>, price |-> <<"1", "2", ".", "5", "0">>, value |-> <<"1", ",", "2", "5", "0", ".", "0", "0">>]

TradeA250 ==
    [volume |-> <<"2", "5", "0">>, price |-> <<"7", ".", "0", "3">>, value |-> <<"1", ",", "7", "5", "7", ".", "5", "0">>]

TradeA75 ==
    [volume |-> <<"7", "5">>, price |-> <<"2", ".", "5">>, value |-> <<"1", "8", "7", ".", "5", "0">>]

\* the body lines of the documents: three trades of one company, one of them
\* under another spelling of its name, and trades of two other companies
MainLines ==
    {TradeLine(<<<<"Α", "Λ", "Φ", "Α">>, <<"(", "Κ", "Ο", ")">>>>, TradeA100, <<" ">>),
     TradeLine(<<<<"Ά", "λ", "φ", "α">>, <<"(", "κ", "ο", ")">>>>, TradeA250, <<" ">>),
     TradeLine(<<<<"Α", "Λ", "Φ", "Α">>, <<"(", "Κ", "Ο", ")">>>>, TradeA75, <<" ">>),
     TradeLine(<<<<"Β", "Η", "Τ", "Α">>>>, TradeA100, <<" ">>),
     TradeLine(<<<<"Ε", "Λ", "Λ", "Α", "Κ", "Τ", "Ω", "Ρ">>, <<"Α", "Ε">>>>, CommaThousands, <<" ">>)}

\* the first pages of the documents: the report date, another date, no date
MainCovers ==
    {<<DateLine>>, <<<<"Τ", "ρ", "ί", "τ", "η", ",", " ", "5", " ", "Μ", "α", "ρ", "τ", "ί",
      "ο", "υ", ",", " ", "2", "0", "2", "4">>>>, <<TitleLine>>}

\* the documents: a first page and a page with a table of at most MaxTrades
\* lines; a document without table; a document whose numbers do not convert
MainDocuments ==
    {<<cover, <<TitleLine, HeaderLine>> \o body \o <<NotesLine>>>> :
        cover \in MainCovers,
        body \in UNION {[1..n -> MainLines] : n \in 1..MaxTrades}}
    \cup {<<PageCover>>, <<PageCover, <<HeaderLine, ScenarioLine>>>>}

BlockLabels(c) ==
    {<<2, c + 1, PyStr(<<"Σ", "Π", "Α", "Κ", "Ε", "Τ", "Ω", "Ν">>)>>, <<2, c + 2, PyStr(<<"#", "Π", "Α", "Κ", "Ε", "Τ", "Ω", "Ν">>)>>,
     <<2, c + 3, PyStr(<<"Τ", "Ι", "Μ", "Η">>)>>}

\* a ledger with two companies, the row of 4 March 2024 filled before, a
\* row of another day, and cells beside the blocks
LedgerFilled ==
    SheetOf({<<1, 1, PyStr(<<"B", "l", "o", "c", "k", " ", "T", "r", "a", "d", "e", "s">>)>>,
             <<2, 2, PyStr(<<"Α", "Λ", "Φ", "Α", " ", "(", "Κ", "Ο", ")">>)>>, <<2, 6, PyStr(<<"Ε", "Λ", "Λ", "Α", "Κ", "Τ", "Ω", "Ρ", " ", "Α", "Ε">>)>>,
             <<2, 11, PyStr(<<"Σ", "χ", "ό", "λ", "ι", "α">>)>>,
             <<3, 1, Midnight(D1)>>, <<3, 2, Midnight(D1)>>, <<3, 3, PyInt(999)>>,
             <<3, 4, PyInt(1)>>, <<3, 5, PyStr(<<"9", ",", "9", "9">>)>>,
             <<3, 6, Midnight(D1)>>, <<3, 7, PyStr(<<"=", "5", "+", "5">>)>>, <<3, 8, PyInt(2)>>,
             <<3, 9, PyStr(<<"1", ",", "0", "0", "-", "1", ",", "1", "0">>)>>, <<3, 11, PyStr(<<"o", "k">>)>>,
             <<4, 1, PyStr(<<"0", "1", "/", "0", "3", "/", "2", "0", "2", "4">>)>>, <<4, 3, PyInt(7)>>}
            \cup BlockLabels(2) \cup BlockLabels(6))

\* a ledger whose only header is spelled with accents and small letters
LedgerAccented ==
    SheetOf({<<1, 1, PyStr(<<"B", "l", "o", "c", "k", " ", "T", "r", "a", "d", "e", "s">>)>>, <<2, 2, PyStr(<<"Ά", "λ", "φ", "α", "(", "κ", "ο", ")">>)>>}
            \cup BlockLabels(2))

\* a ledger with one company under two headers, and a third header
LedgerTwice ==
    SheetOf({<<2, 2, PyStr(<<"Α", "Λ", "Φ", "Α", " ", "(", "Κ", "Ο", ")">>)>>, <<2, 6, PyStr(<<"Ά", "λ", "φ", "α", "(", "κ", "ο", ")">>)>>,
             <<2, 10, PyStr(<<" ", "Β", "Η", "Τ", "Α", " ">>)>>,
             <<3, 1, Midnight(D2)>>, <<3, 3, PyInt(40)>>, <<3, 7, PyInt(41)>>,
             <<3, 11, PyInt(42)>>})

\* the workbooks: the Master sheet and the sheets beside it, which are none,
\* or, in the ledger filled before, the sheet of the run for 4 March 2024
MainWorkbooks ==
    {[master |-> LedgerFilled,
      others |-> [n \in {DateLabel(D1)} |-> AuditSheet(<<>>, <<>>)]],
     [master |-> LedgerAccented, others |-> <<>>],
     [master |-> LedgerTwice, others |-> <<>>],
     [master |-> EmptySheet, others |-> <<>>]}

Init ==
    /\ pc = "main_in"
    /\ pdf \in MainDocuments
    /\ report = PyNone
    /\ df = PyNone
    /\ text = <<>>
    /\ \E wb \in MainWorkbooks : ws = wb.master /\ sheet = wb.others
    /\ arg = PyNone
    /\ ret = [row_idx |-> 0, headers_map |-> <<>>]
    /\ OtherIdle({"parse", "pdf", "ledger"})

\* lines 249-262: the table is extracted; main returns when it is empty, and
\* is left by the exception of the extraction or of strftime on a date None
MainExtract ==
    /\ pc = "main_in"
    /\ df' = extract_block_trades(pdf)
    /\ IF df' = ValueError THEN pc' = "main_raised" /\ report' = report
       ELSE IF df'.v = <<>> THEN pc' = "main_returned" /\ report' = report
       ELSE IF df'.v[1].Date = PyNone THEN pc' = "main_raised" /\ report' = report
       ELSE pc' = "main_parsed" /\ report' = df'.v[1].Date
    /\ UNCHANGED <<pdf, text, normVars, ledgerVars>>

\* line 271
MainFindRow ==
    /\ pc = "main_parsed"
    /\ LET out == find_or_create_date_row(ws, report) IN
       /\ ws' = out.ws
       /\ ret' = [ret EXCEPT !.row_idx = out.row]
    /\ pc' = "main_row"
    /\ UNCHANGED <<arg, sheet, normVars, parseVars, pdfVars>>

\* line 272
MainReadHeaders ==
    /\ pc = "main_row"
    /\ LET out == read_company_header_positions(ws) IN
       /\ ws' = out.ws
       /\ ret' = [ret EXCEPT !.headers_map = out.positions]
    /\ pc' = "main_headers"
    /\ UNCHANGED <<arg, sheet, normVars, parseVars, pdfVars>>

\* lines 274-280; arg keeps the sheet as it was before fill_row
MainFillRow ==
    /\ pc = "main_headers"
    /\ arg' = ws
    /\ ws' = fill_row(ws, ret.row_idx, ret.headers_map, TradesMap(df.v), report)
    /\ pc' = "main_filled"
    /\ UNCHANGED <<ret, sheet, normVars, parseVars, pdfVars>>

\* lines 284-290: the audit sheet is written and the workbook saved
MainWriteSheet ==
    /\ pc = "main_filled"
    /\ sheet' = write_pdf_sheet(sheet, DateLabel(report), df.v, ret.headers_map)
    /\ pc' = "main_saved"
    /\ UNCHANGED <<ws, arg, ret, normVars, parseVars, pdfVars>>

Next ==
    \/ MainExtract
    \/ MainFindRow
    \/ MainReadHeaders
    \/ MainFillRow
    \/ MainWriteSheet

Spec == Init /\ [][Next]_vars

-----------------------------------------------------------------------------
(* The row main fills, and the audit sheet it writes. *)

RECURSIVE SplitOn(_, _)
\* the pieces of cs between the occurrences of the character ch
SplitOn(cs, ch) ==
    IF \A i \in 1..Len(cs) : cs[i] # ch THEN <<cs>>
    ELSE LET k == CHOOSE k \in 1..Len(cs) :
                      cs[k] = ch /\ \A j \in 1..(k - 1) : cs[j] # ch
         IN  <<SubSeq(cs, 1, k - 1)>> \o SplitOn(SubSeq(cs, k + 1, Len(cs)), ch)

\* the text is a formula "=a+b+...": an equals sign and numbers between pluses
IsSum(cs) ==
    /\ cs # <<>>
    /\ Head(cs) = "="
    /\ \A t \in {SplitOn(Tail(cs), "+")[i] : i \in 1..Len(SplitOn(Tail(cs), "+"))} :
           IsIntText(t)

\* the numbers a formula "=a+b+..." adds, in the order written
Operands(cs) ==
    LET parts == SplitOn(Tail(cs), "+")
    IN  [i \in 1..Len(parts) |-> DigitsValue(parts[i])]

\* main has filled the row
Filled == pc \in {"main_filled", "main_saved"}

\* C3: for every company of the header map with trades in the parsed table,
\* the cell at anchor+1 of the filled row holds the bare integer volume when
\* the company has exactly one trade, and otherwise a text "=v1+v2+...+vn"
\* whose operands are the volumes of the company's trades in the order of the
\* table.
C3_VolumeCell ==
    Filled =>
        \A i \in 1..Len(ret.headers_map) :
            LET e       == ret.headers_map[i]
                vols    == VolumesOf(df.v, e.key)
                written == value_at(ws, ret.row_idx, e.col + 1)
            IN  vols # <<>> =>
                    IF Len(vols) = 1 THEN written = PyInt(vols[1])
                    ELSE /\ written.t = "str"
                         /\ IsSum(written.v)
                         /\ Operands(written.v) = vols

\* volumes 100, 250, 75 of one company give "=100+250+75"
C3_Witness ==
    /\ Filled
    /\ \E i \in 1..Len(ret.headers_map) :
           /\ VolumesOf(df.v, ret.headers_map[i].key) = <<100, 250, 75>>
           /\ value_at(ws, ret.row_idx, ret.headers_map[i].col + 1)
                  = PyStr(<<"=", "1", "0", "0", "+", "2", "5", "0", "+", "7", "5">>)

\* the normalized company of row r of the table is a key of the header map
Matched(r) == HasKey(ret.headers_map, NormStr(r.Company))

\* the columns of the blocks of the header map
BlockColumns ==
    UNION {ret.headers_map[i].col..(ret.headers_map[i].col + 3) :
               i \in 1..Len(ret.headers_map)}

\* C4: the audit sheet holds every parsed trade, flagged "Yes" when its
\* normalized company is a key of the header map and "No" when it is not; and
\* the filled ledger is the one fill_row makes from the trades of the header
\* map's companies alone, every changed cell lying in the filled row inside
\* the block of a header-map company.
C4_UnmatchedAudited ==
    pc = "main_saved" =>
        LET audit == sheet[DateLabel(report)] IN
        /\ Len(audit.rows) = Len(df.v)
        /\ \A i \in 1..Len(df.v) :
               /\ audit.rows[i].Company = df.v[i].Company
               /\ audit.rows[i].Volume = df.v[i].Volume
               /\ audit.rows[i].Matched = IF Matched(df.v[i]) THEN "Yes" ELSE "No"
        /\ ws = fill_row(arg, ret.row_idx, ret.headers_map,
                         TradesMap(SelectSeq(df.v, Matched)), report)
        /\ \A p \in DOMAIN ws \cup DOMAIN arg :
               value_at(ws, p[1], p[2]) # value_at(arg, p[1], p[2]) =>
                   p[1] = ret.row_idx /\ p[2] \in BlockColumns

\* a table with a trade of a header-map company and a trade of another one
C4_Witness ==
    /\ pc = "main_saved"
    /\ \E i, j \in 1..Len(df.v) :
           /\ ~Matched(df.v[i])
           /\ sheet[DateLabel(report)].rows[i].Matched = "No"
           /\ Matched(df.v[j])
           /\ df.v[j].Company # NormStr(df.v[j].Company)
           /\ sheet[DateLabel(report)].rows[j].Matched = "Yes"

\* C10: after fill_row on row r, the anchor cell of every header-map company
\* holds the report date at midnight; the cells anchor+1..anchor+3 are as
\* they were for a company without trades, and written for a company with
\* trades; every cell of another row, or of a column outside the blocks of
\* the header-map companies, is as it was.
C10_FillRowFrame ==
    Filled =>
        /\ \A i \in 1..Len(ret.headers_map) :
               LET e == ret.headers_map[i] IN
               /\ value_at(ws, ret.row_idx, e.col) = Midnight(report)
               /\ \A k \in 1..3 :
                      IF VolumesOf(df.v, e.key) = <<>>
                      THEN value_at(ws, ret.row_idx, e.col + k)
                               = value_at(arg, ret.row_idx, e.col + k)
                      ELSE value_at(ws, ret.row_idx, e.col + k) # PyNone
        /\ \A p \in DOMAIN ws \cup DOMAIN arg :
               (p[1] # ret.row_idx \/ p[2] \notin BlockColumns) =>
                   value_at(ws, p[1], p[2]) = value_at(arg, p[1], p[2])

\* a row filled before: a company without trades keeps its cells, a company
\* with trades gets new ones, a cell beside the blocks stays
C10_Witness ==
    /\ Filled
    /\ \E i, j \in 1..Len(ret.headers_map) :
           /\ VolumesOf(df.v, ret.headers_map[i].key) = <<>>
           /\ value_at(arg, ret.row_idx, ret.headers_map[i].col + 1) # PyNone
           /\ VolumesOf(df.v, ret.headers_map[j].key) # <<>>
           /\ value_at(arg, ret.row_idx, ret.headers_map[j].col + 1)
                  # value_at(ws, ret.row_idx, ret.headers_map[j].col + 1)
    /\ \E p \in DOMAIN arg :
           p[1] = ret.row_idx /\ p[2] \notin BlockColumns /\ p[2] > 1

====
